---- MODULE Spec2Model ----
(***************************************************************************)
(* Model of fill_pdf.py: a command-line tool that parses a tab-delimited   *)
(* record, renames the selected values to PDF form-field names and fills   *)
(* an AcroForm template through the pypdf library, or lists the template's *)
(* fields.                                                                 *)
(*                                                                         *)
(* Strings are sequences of one-character strings; "" is << >>.  Python's  *)
(* None and optional values are the records None and Some(v).              *)
(***************************************************************************)
EXTENDS Integers, Sequences, FiniteSets, TLC

\* ------------------------------------------------------------------ bounds

MaxLen == 3        \* longest string enumerated character by character
MaxFileLen == 2    \* the same, for the text of the data file
MaxParts == 20     \* most tab-separated parts of a generated record
MaxLead == 1       \* most leading tab characters of a generated record
MaxPages == 2      \* most pages of a template

\* ----------------------------------------------------------------- strings

TAB == "\t"
Alphabet == {"a", TAB, " "}
\* the characters str.strip() removes (those the model's strings can hold)
Whitespace == {" ", TAB, "\n", "\r", "\f"}

None == [some |-> FALSE, val |-> << >>]
Some(v) == [some |-> TRUE, val |-> v]

Digit == <<"0", "1", "2", "3", "4", "5", "6", "7", "8", "9">>

\* all strings over Alphabet of length at most n
RECURSIVE StringsUpTo(_)
StringsUpTo(n) ==
  IF n = 0 THEN {<< >>}
  ELSE LET shorter == StringsUpTo(n - 1)
       IN  shorter \cup {Append(s, c) : s \in shorter, c \in Alphabet}

\* the text of part i of a generated record: two digits, or nothing when
\* the record is sparse and i is odd
Token(i, sparse) ==
  IF sparse /\ i % 2 = 1 THEN << >>
  ELSE <<Digit[((i \div 10) % 10) + 1], Digit[(i % 10) + 1]>>

RECURSIVE Tabs(_)
Tabs(k) == IF k = 0 THEN << >> ELSE <<TAB>> \o Tabs(k - 1)

\* parts 0 .. n-1 joined by tabs
RECURSIVE Joined(_, _)
Joined(n, sparse) ==
  IF n = 1 THEN Token(0, sparse)
  ELSE Joined(n - 1, sparse) \o <<TAB>> \o Token(n - 1, sparse)

Record(n, k, sparse, trail) == Tabs(k) \o Joined(n, sparse) \o trail

Records ==
  {Record(n, k, sparse, trail) :
     n \in 1..MaxParts, k \in 0..MaxLead,
     sparse \in BOOLEAN, trail \in {<< >>, <<"\n">>}}

\* the strings handed to the pure functions
Inputs == StringsUpTo(MaxLen) \cup Records

\* the texts a data file holds
FileTexts ==
  StringsUpTo(MaxFileLen) \cup
  {Record(n, k, FALSE, trail) :
     n \in {5, MaxParts - 1, MaxParts}, k \in 0..MaxLead,
     trail \in {<< >>, <<"\n">>}}

\* the values --data is given
DataArgs == {<< >>, <<TAB, "a", TAB>>, Record(MaxParts - 1, 1, TRUE, << >>)}

\* ------------------------------------------------- parse_tab_delimited_input

\* s.split("\t"): the parts between tab characters; "" gives [""]
RECURSIVE SplitFrom(_, _, _)
SplitFrom(s, i, cur) ==
  IF i > Len(s) THEN <<cur>>
  ELSE IF s[i] = TAB THEN <<cur>> \o SplitFrom(s, i + 1, << >>)
  ELSE SplitFrom(s, i + 1, Append(cur, s[i]))

Split(s) == SplitFrom(s, 1, << >>)

\* what reading a list out of range raises, as a value no string equals
IndexError == <<"IndexError">>

\* parts_list[index] for index >= 0
ListIndex(parts_list, index) ==
  IF index < Len(parts_list) THEN parts_list[index + 1] ELSE IndexError

SafeOffByOne(parts_list, index) ==
  IF index <= Len(parts_list) THEN ListIndex(parts_list, index) ELSE << >>

safe(parts_list, index) ==
  IF index < Len(parts_list) THEN ListIndex(parts_list, index) ELSE << >>

parse_tab_delimited_input(input_data_string) ==
  LET parts == Split(input_data_string)
  IN  [id_class       |-> safe(parts, 0),
       ten_hv         |-> safe(parts, 4),
       id_hv          |-> safe(parts, 3),
       ngay_bat_dau   |-> safe(parts, 7),
       id_gs          |-> safe(parts, 9),
       ten_gs         |-> safe(parts, 10),
       san_pham       |-> safe(parts, 13),
       quan_ly_lop    |-> safe(parts, 17),
       cvcm_phu_trach |-> safe(parts, 18)]

\* an exception raised while the mapping was built
Raised(data_map) == \E k \in DOMAIN data_map : data_map[k] = IndexError

\* --------------------------------------------------- build_pdf_field_values

\* data_map.get(key, "")
Get(data_map, key) ==
  IF key \in DOMAIN data_map THEN data_map[key] ELSE << >>

BuildSignatureFromStudent(data_map) ==
  [ma_lop                |-> Get(data_map, "id_class"),
   ma_hoc_vien           |-> Get(data_map, "id_hv"),
   ho_ten_hv             |-> Get(data_map, "ten_hv"),
   ngay_bat_dau_cong_tac |-> Get(data_map, "ngay_bat_dau"),
   ma_gia_su             |-> Get(data_map, "id_gs"),
   ho_ten_gs             |-> Get(data_map, "ten_gs"),
   mon_lop               |-> Get(data_map, "san_pham"),
   quan_ly_lop_phu_trach |-> Get(data_map, "quan_ly_lop"),
   co_van_chuyen_mon     |-> Get(data_map, "cvcm_phu_trach"),
   ten_gia_su_ky_ten     |-> Get(data_map, "ten_hv")]

build_pdf_field_values(data_map) ==
  [ma_lop                |-> Get(data_map, "id_class"),
   ma_hoc_vien           |-> Get(data_map, "id_hv"),
   ho_ten_hv             |-> Get(data_map, "ten_hv"),
   ngay_bat_dau_cong_tac |-> Get(data_map, "ngay_bat_dau"),
   ma_gia_su             |-> Get(data_map, "id_gs"),
   ho_ten_gs             |-> Get(data_map, "ten_gs"),
   mon_lop               |-> Get(data_map, "san_pham"),
   quan_ly_lop_phu_trach |-> Get(data_map, "quan_ly_lop"),
   co_van_chuyen_mon     |-> Get(data_map, "cvcm_phu_trach"),
   ten_gia_su_ky_ten     |-> Get(data_map, "ten_gs")]


\* ------------------------------------------------------------ PDF documents

\* the field names of the templates: three of the mapped names and one the
\* mapping does not know
old == <<"o", "l", "d">>
keep == <<"k", "e", "e", "p">>

\* a page is a function from the names of its form fields to their values
\* (None: the field has no value)
PageA == [n \in {"ma_lop", "other"} |->
            IF n = "ma_lop" THEN Some(old) ELSE Some(keep)]
PageB == [n \in {"ho_ten_gs", "ten_gia_su_ky_ten", "other"} |->
            IF n = "other" THEN None ELSE Some(old)]
PageKinds == {PageA, PageB}

RECURSIVE PageSeqs(_)
PageSeqs(n) ==
  IF n = 0 THEN {<< >>}
  ELSE LET shorter == PageSeqs(n - 1)
       IN  shorter \cup {Append(ps, p) : ps \in shorter, p \in PageKinds}

\* acro: the catalog's /AcroForm: "absent", "present" (no /NeedAppearances
\* true in it) or "need" (/NeedAppearances is true)
AcroStates == {"absent", "present", "need"}
NoDoc == [pages |-> << >>, acro |-> "absent"]
Docs == [pages : PageSeqs(MaxPages), acro : AcroStates]

\* a file that holds a document, one that holds something else, no file
TemplateFiles ==
  {[kind |-> "pdf", doc |-> d] : d \in Docs} \cup
  {[kind |-> "garbage", doc |-> NoDoc], [kind |-> "absent", doc |-> NoDoc]}

OutputFiles == {[kind |-> "absent", doc |-> NoDoc], [kind |-> "old", doc |-> NoDoc]}

\* -------------------------------------------------------------------- state

VARIABLES
  pc,             \* where the run is
  command,        \* args.command
  data,           \* args.data: None or Some(string)
  data_file,      \* args.data_file: None or Some(path)
  file_text,      \* the text of the file at the --data-file path; None: no file
  template_file,  \* the file at args.template
  output_file,    \* the file at args.output
  out_writable,   \* whether args.output can be opened for writing
  input_string,   \* the raw input string handed to fill_pdf_form
  data_map,       \* parse_tab_delimited_input's result
  fields_to_fill, \* build_pdf_field_values' result
  writer,         \* the PdfWriter's document
  page_index,     \* the loop variable of the update loop
  hint,           \* set_need_appearances: "pending", "ok" or "skipped"
  text_fields,    \* what reader.get_form_text_fields() gave
  fields2,        \* what reader.get_fields() gave
  listed,         \* list_form_fields' result
  stdout,         \* what was printed
  exit_code,      \* the process's exit status, -1 while it runs
  iolog           \* the files opened so far, in order

vars == <<pc, command, data, data_file, file_text, template_file, output_file,
          out_writable, input_string, data_map, fields_to_fill, writer,
          page_index, hint, text_fields, fields2, listed, stdout, exit_code,
          iolog>>

DataPath == "data_file"
NoMap == [n \in {} |-> << >>]
NotCalled == [kind |-> "not_called", val |-> NoMap]

\* the state of a run that has done nothing yet, but for its arguments and
\* the files
Fresh ==
  /\ input_string = None
  /\ data_map = NoMap
  /\ fields_to_fill = NoMap
  /\ writer = NoDoc
  /\ page_index = 0
  /\ hint = "pending"
  /\ text_fields = NotCalled
  /\ fields2 = NotCalled
  /\ listed = NoMap
  /\ stdout = "nothing"
  /\ exit_code = -1
  /\ iolog = << >>

\* build_cli and parser.parse_args(): list-fields takes a template; fill
\* takes a template, an output and the optional --data and --data-file
Init ==
  /\ pc = "start"
  /\ command \in {"list-fields", "fill"}
  /\ template_file \in TemplateFiles
  /\ IF command = "fill"
     THEN /\ data \in {None} \cup {Some(s) : s \in DataArgs}
          /\ data_file \in {None, Some(DataPath)}
          /\ file_text \in IF data_file = None THEN {None}
                           ELSE {None} \cup {Some(s) : s \in FileTexts}
          /\ output_file \in OutputFiles
          /\ out_writable \in BOOLEAN
     ELSE /\ data = None
          /\ data_file = None
          /\ file_text = None
          /\ output_file = [kind |-> "absent", doc |-> NoDoc]
          /\ out_writable = TRUE
  /\ Fresh


\* --------------------------------------------------------------------- main

\* str.strip(): the text without its leading and trailing whitespace
RECURSIVE LStrip(_)
LStrip(s) ==
  IF s # << >> /\ Head(s) \in Whitespace THEN LStrip(Tail(s)) ELSE s

RECURSIVE RStrip(_)
RStrip(s) ==
  IF s # << >> /\ s[Len(s)] \in Whitespace
  THEN RStrip(SubSeq(s, 1, Len(s) - 1))
  ELSE s

StripSpacesOnly(s) ==
  LET NotSpace == {i \in 1..Len(s) : s[i] # " "}
  IN  IF NotSpace = {} THEN << >>
      ELSE SubSeq(s, CHOOSE i \in NotSpace : \A j \in NotSpace : i <= j,
                     CHOOSE i \in NotSpace : \A j \in NotSpace : i >= j)

Strip(s) == RStrip(LStrip(s))

\* the exit of a run by an exception nothing catches
Fails ==
  /\ pc' = "error"
  /\ exit_code' = 1

NeitherCheckDropped == FALSE

\* main's test before parser.error
NoDataGiven == data = None /\ data_file = None

\* main, the dispatch on args.command and the check of the fill arguments
Dispatch ==
  /\ pc = "start"
  /\ \/ /\ command = "list-fields"
        /\ pc' = "list_open"
        /\ UNCHANGED exit_code
     \/ /\ command = "fill"
        /\ NoDataGiven
        /\ pc' = "usage_error"
        /\ exit_code' = 2
     \/ /\ command = "fill"
        /\ ~NoDataGiven
        /\ pc' = "read_input"
        /\ UNCHANGED exit_code
  /\ UNCHANGED <<command, data, data_file, file_text, template_file,
                 output_file, out_writable, input_string, data_map,
                 fields_to_fill, writer, page_index, hint, text_fields,
                 fields2, listed, stdout, iolog>>

DataWins == data_file # None /\ data = None

\* main's choice between the file and the argument
ReadsFile == data_file # None

\* main, input_string: the stripped text of the data file, or args.data
ReadInput ==
  /\ pc = "read_input"
  /\ \/ /\ ReadsFile
        /\ file_text = None
        /\ iolog' = Append(iolog, "read_data_file")
        /\ Fails
        /\ UNCHANGED input_string
     \/ /\ ReadsFile
        /\ file_text # None
        /\ iolog' = Append(iolog, "read_data_file")
        /\ input_string' = Some(Strip(file_text.val))
        /\ pc' = "parse"
        /\ UNCHANGED exit_code
     \/ /\ ~ReadsFile
        /\ input_string' = data
        /\ pc' = "parse"
        /\ UNCHANGED <<exit_code, iolog>>
  /\ UNCHANGED <<command, data, data_file, file_text, template_file,
                 output_file, out_writable, data_map, fields_to_fill, writer,
                 page_index, hint, text_fields, fields2, listed, stdout>>

\* fill_pdf_form, data_map
Parse ==
  /\ pc = "parse"
  /\ LET m == IF input_string = None THEN NoMap
              ELSE parse_tab_delimited_input(input_string.val)
         raises == input_string = None \/ Raised(m)
     IN  /\ data_map' = m
         /\ pc' = IF raises THEN "error" ELSE "build"
         /\ exit_code' = IF raises THEN 1 ELSE exit_code
  /\ UNCHANGED <<command, data, data_file, file_text, template_file,
                 output_file, out_writable, input_string, fields_to_fill,
                 writer, page_index, hint, text_fields, fields2, listed,
                 stdout, iolog>>

\* fill_pdf_form, fields_to_fill
Build ==
  /\ pc = "build"
  /\ fields_to_fill' = build_pdf_field_values(data_map)
  /\ pc' = "open_template"
  /\ UNCHANGED <<command, data, data_file, file_text, template_file,
                 output_file, out_writable, input_string, data_map, writer,
                 page_index, hint, text_fields, fields2, listed, stdout,
                 exit_code, iolog>>

\* what the page copy leaves in the new document's catalog: PdfWriter()
\* starts without /AcroForm and add_page copies pages; whether the form
\* dictionary of the template comes with them is the library's choice
CopiedAcro(reader) == {"absent", reader.acro}

OpenTemplateOpensOutput ==
  /\ pc = "open_template"
  /\ iolog' = Append(Append(iolog, "open_output"), "open_template")
  /\ output_file' = [kind |-> "partial", doc |-> NoDoc]
  /\ \/ /\ template_file.kind # "pdf"
        /\ Fails
        /\ UNCHANGED writer
     \/ /\ template_file.kind = "pdf"
        /\ \E a \in CopiedAcro(template_file.doc) :
             writer' = [pages |-> template_file.doc.pages, acro |-> a]
        /\ pc' = "hint"
        /\ UNCHANGED exit_code
  /\ UNCHANGED <<command, data, data_file, file_text, template_file,
                 out_writable, input_string, data_map,
                 fields_to_fill, page_index, hint, text_fields, fields2,
                 listed, stdout>>

\* fill_pdf_form: PdfReader(template), PdfWriter() and the add_page loop
OpenTemplate ==
  /\ pc = "open_template"
  /\ iolog' = Append(iolog, "open_template")
  /\ \/ /\ template_file.kind # "pdf"
        /\ Fails
        /\ UNCHANGED writer
     \/ /\ template_file.kind = "pdf"
        /\ \E a \in CopiedAcro(template_file.doc) :
             writer' = [pages |-> template_file.doc.pages, acro |-> a]
        /\ pc' = "hint"
        /\ UNCHANGED exit_code
  /\ UNCHANGED <<command, data, data_file, file_text, template_file,
                 output_file, out_writable, input_string, data_map,
                 fields_to_fill, page_index, hint, text_fields, fields2,
                 listed, stdout>>


\* the places where set_need_appearances can raise inside its try block
HintFailures == {"none", "root", "lookup", "add_object", "root_update", "flag"}

\* set_need_appearances' try block on a catalog whose /AcroForm is acro,
\* raising at f: the catalog's /AcroForm afterwards and whether the block
\* ran to its end
NeedAppearances(acro, f) ==
  IF f \in {"root", "lookup"} THEN [acro |-> acro, ok |-> FALSE]
  ELSE IF acro # "absent"
  THEN IF f = "flag" THEN [acro |-> acro, ok |-> FALSE]
       ELSE [acro |-> "need", ok |-> TRUE]
  ELSE IF f \in {"add_object", "root_update"}
  THEN [acro |-> "absent", ok |-> FALSE]
  ELSE IF f = "flag" THEN [acro |-> "present", ok |-> FALSE]
  ELSE [acro |-> "need", ok |-> TRUE]

AfterHintReraises(ok) == IF ok THEN "update" ELSE "error"

\* where fill_pdf_form goes on after set_need_appearances: its except
\* clause passes
AfterHint(ok) == "update"

\* fill_pdf_form, set_need_appearances(writer)
SetNeedAppearances ==
  /\ pc = "hint"
  /\ \E f \in HintFailures :
       LET r == NeedAppearances(writer.acro, f)
       IN  /\ writer' = [writer EXCEPT !.acro = r.acro]
           /\ hint' = IF r.ok THEN "ok" ELSE "skipped"
           /\ pc' = AfterHint(r.ok)
           /\ exit_code' = IF AfterHint(r.ok) = "error" THEN 1 ELSE exit_code
  /\ page_index' = 0
  /\ UNCHANGED <<command, data, data_file, file_text, template_file,
                 output_file, out_writable, input_string, data_map,
                 fields_to_fill, text_fields, fields2, listed, stdout, iolog>>

\* writer.update_page_form_field_values(page, fields): the fields of the page
\* whose name is a key of fields take its value, the others keep theirs
update_page_form_field_values(page, fields) ==
  [n \in DOMAIN page |-> IF n \in DOMAIN fields THEN Some(fields[n]) ELSE page[n]]

LoopSkipsLastPage(w) == IF Len(w.pages) = 0 THEN 0 ELSE Len(w.pages) - 1

\* the end of range(len(writer.pages))
LoopEnd(w) == Len(w.pages)

\* fill_pdf_form, one turn of the update loop; the call's exception, if it
\* raises one, leaves fill_pdf_form
UpdatePage ==
  /\ pc = "update"
  /\ page_index < LoopEnd(writer)
  /\ \/ /\ writer' = [writer EXCEPT !.pages[page_index + 1] =
                        update_page_form_field_values(@, fields_to_fill)]
        /\ page_index' = page_index + 1
        /\ UNCHANGED <<pc, exit_code>>
     \/ /\ Fails
        /\ UNCHANGED <<writer, page_index>>
  /\ UNCHANGED <<command, data, data_file, file_text, template_file,
                 output_file, out_writable, input_string, data_map,
                 fields_to_fill, hint, text_fields, fields2, listed, stdout,
                 iolog>>

\* fill_pdf_form, the update loop is over
UpdateDone ==
  /\ pc = "update"
  /\ page_index >= LoopEnd(writer)
  /\ pc' = "write"
  /\ UNCHANGED <<command, data, data_file, file_text, template_file,
                 output_file, out_writable, input_string, data_map,
                 fields_to_fill, writer, page_index, hint, text_fields,
                 fields2, listed, stdout, exit_code, iolog>>

\* fill_pdf_form, output_pdf_path.open("wb") and writer.write; then main's
\* message
Write ==
  /\ pc = "write"
  /\ iolog' = Append(iolog, "open_output")
  /\ \/ /\ ~out_writable
        /\ Fails
        /\ UNCHANGED <<output_file, stdout>>
     \/ /\ out_writable
        /\ output_file' = [kind |-> "partial", doc |-> NoDoc]
        /\ Fails
        /\ UNCHANGED stdout
     \/ /\ out_writable
        /\ output_file' = [kind |-> "pdf", doc |-> writer]
        /\ stdout' = "created"
        /\ pc' = "done"
        /\ exit_code' = 0
  /\ UNCHANGED <<command, data, data_file, file_text, template_file,
                 out_writable, input_string, data_map, fields_to_fill, writer,
                 page_index, hint, text_fields, fields2, listed>>


\* -------------------------------------------------------------- list-fields

value == <<"v">>
ListedNames == {"ma_lop", "other"}

\* the mappings from some of the listed names to elements of vals
MapsTo(vals) ==
  {NoMap} \cup
  {[n \in {"ma_lop"} |-> v] : v \in vals} \cup
  {[n \in {"other"} |-> v] : v \in vals} \cup
  [ListedNames -> vals]

\* what reader.get_form_text_fields() does: it raises, or gives a mapping
\* from field names to a string or None
TextResults ==
  {[kind |-> "raise", val |-> NoMap]} \cup
  {[kind |-> "value", val |-> m] : m \in MapsTo({None, Some(value)})}

\* a field as reader.get_fields() gives it: a dictionary with or without
\* /V, or something that is no dictionary
FieldObjects ==
  {[isdict |-> TRUE, V |-> Some(value)], [isdict |-> TRUE, V |-> None],
   [isdict |-> FALSE, V |-> None]}

\* what reader.get_fields() does: it raises, gives None, or a mapping from
\* field names to fields
FieldResults ==
  {[kind |-> "raise", val |-> NoMap], [kind |-> "none", val |-> NoMap]} \cup
  {[kind |-> "value", val |-> m] : m \in MapsTo(FieldObjects)}

\* list_form_fields, the mapping made of the text fields
TextValues(fields) ==
  [name \in DOMAIN fields |->
     IF fields[name] # None THEN fields[name].val ELSE << >>]

FallbackValuesNoDictTest(fields) ==
  [name \in DOMAIN fields |->
     IF fields[name].V # None THEN fields[name].V.val ELSE <<"?">>]

\* list_form_fields, the mapping made of the fields of get_fields()
FallbackValues(fields) ==
  [name \in DOMAIN fields |->
     IF fields[name].isdict
     THEN IF fields[name].V # None THEN fields[name].V.val ELSE << >>
     ELSE << >>]

\* list_form_fields, PdfReader(template)
ListOpen ==
  /\ pc = "list_open"
  /\ iolog' = Append(iolog, "open_template")
  /\ \/ /\ template_file.kind # "pdf"
        /\ Fails
     \/ /\ template_file.kind = "pdf"
        /\ pc' = "list_text"
        /\ UNCHANGED exit_code
  /\ UNCHANGED <<command, data, data_file, file_text, template_file,
                 output_file, out_writable, input_string, data_map,
                 fields_to_fill, writer, page_index, hint, text_fields,
                 fields2, listed, stdout>>

\* list_form_fields, the first try block
ListText ==
  /\ pc = "list_text"
  /\ \E r \in TextResults :
       /\ text_fields' = r
       /\ IF r.kind = "raise"
          THEN pc' = "list_fallback" /\ UNCHANGED listed
          ELSE pc' = "print" /\ listed' = TextValues(r.val)
  /\ UNCHANGED <<command, data, data_file, file_text, template_file,
                 output_file, out_writable, input_string, data_map,
                 fields_to_fill, writer, page_index, hint, fields2, stdout,
                 exit_code, iolog>>

\* list_form_fields, the second try block
ListFallback ==
  /\ pc = "list_fallback"
  /\ \E r \in FieldResults :
       /\ fields2' = r
       /\ listed' = IF r.kind = "value" THEN FallbackValues(r.val) ELSE NoMap
  /\ pc' = "print"
  /\ UNCHANGED <<command, data, data_file, file_text, template_file,
                 output_file, out_writable, input_string, data_map,
                 fields_to_fill, writer, page_index, hint, text_fields,
                 stdout, exit_code, iolog>>

\* main, the printing of the fields
PrintFields ==
  /\ pc = "print"
  /\ stdout' = IF listed = NoMap THEN "No form fields detected." ELSE "fields"
  /\ pc' = "done"
  /\ exit_code' = 0
  /\ UNCHANGED <<command, data, data_file, file_text, template_file,
                 output_file, out_writable, input_string, data_map,
                 fields_to_fill, writer, page_index, hint, text_fields,
                 fields2, listed, iolog>>

Next ==
  \/ Dispatch
  \/ ReadInput
  \/ Parse
  \/ Build
  \/ OpenTemplate
  \/ SetNeedAppearances
  \/ UpdatePage
  \/ UpdateDone
  \/ Write
  \/ ListOpen
  \/ ListText
  \/ ListFallback
  \/ PrintFields

Spec == Init /\ [][Next]_vars

\* ------------------------------------------- the two functions on their own

ParsedKeys ==
  {"id_class", "ten_hv", "id_hv", "ngay_bat_dau", "id_gs", "ten_gs",
   "san_pham", "quan_ly_lop", "cvcm_phu_trach"}

\* the value a key has in an argument of build_pdf_field_values: a text of
\* its own, or one text for all keys
KeyNumber ==
  [id_class |-> 0, ten_hv |-> 1, id_hv |-> 2, ngay_bat_dau |-> 3, id_gs |-> 4,
   ten_gs |-> 5, san_pham |-> 6, quan_ly_lop |-> 7, cvcm_phu_trach |-> 8]

ArgMaps ==
  {[k \in keys |-> IF own THEN Token(KeyNumber[k], FALSE) ELSE value] :
     keys \in SUBSET ParsedKeys, own \in BOOLEAN}

InitFn ==
  /\ \/ /\ pc = "call_parse"
        /\ input_string \in {Some(s) : s \in Inputs}
        /\ data_map = NoMap
     \/ /\ pc = "call_build"
        /\ input_string = None
        /\ data_map \in ArgMaps
  /\ command = "none"
  /\ data = None
  /\ data_file = None
  /\ file_text = None
  /\ template_file = [kind |-> "absent", doc |-> NoDoc]
  /\ output_file = [kind |-> "absent", doc |-> NoDoc]
  /\ out_writable = TRUE
  /\ fields_to_fill = NoMap
  /\ writer = NoDoc
  /\ page_index = 0
  /\ hint = "pending"
  /\ text_fields = NotCalled
  /\ fields2 = NotCalled
  /\ listed = NoMap
  /\ stdout = "nothing"
  /\ exit_code = -1
  /\ iolog = << >>

\* a call of parse_tab_delimited_input
CallParse ==
  /\ pc = "call_parse"
  /\ LET m == parse_tab_delimited_input(input_string.val)
     IN  /\ data_map' = m
         /\ pc' = IF Raised(m) THEN "raised" ELSE "parsed"
  /\ UNCHANGED <<command, data, data_file, file_text, template_file,
                 output_file, out_writable, input_string, fields_to_fill,
                 writer, page_index, hint, text_fields, fields2, listed,
                 stdout, exit_code, iolog>>

\* a call of build_pdf_field_values
CallBuild ==
  /\ pc = "call_build"
  /\ fields_to_fill' = build_pdf_field_values(data_map)
  /\ pc' = "built"
  /\ UNCHANGED <<command, data, data_file, file_text, template_file,
                 output_file, out_writable, input_string, data_map, writer,
                 page_index, hint, text_fields, fields2, listed, stdout,
                 exit_code, iolog>>

NextFn == CallParse \/ CallBuild

SpecFn == InitFn /\ [][NextFn]_vars


\* ------------------------------------------------------------------- claims

\* the positions of the tab characters of s
TabPositions(s) == {p \in 1..Len(s) : s[p] = TAB}

\* the position of the n-th tab character of s, n >= 1
NthTab(s, n) ==
  LET T == TabPositions(s)
  IN  CHOOSE p \in T : Cardinality({q \in T : q <= p}) = n

\* s has a part of index i (from 0)
PartExists(s, i) == i <= Cardinality(TabPositions(s))

\* the part of index i of s: the text between the i-th tab and the next
PartText(s, i) ==
  LET from == IF i = 0 THEN 1 ELSE NthTab(s, i) + 1
      to == IF i = Cardinality(TabPositions(s)) THEN Len(s)
            ELSE NthTab(s, i + 1) - 1
  IN  SubSeq(s, from, to)

\* the index each key of ParsedFields reads
ParsedIndex ==
  [id_class |-> 0, ten_hv |-> 4, id_hv |-> 3, ngay_bat_dau |-> 7,
   id_gs |-> 9, ten_gs |-> 10, san_pham |-> 13, quan_ly_lop |-> 17,
   cvcm_phu_trach |-> 18]

\* C1: parse_tab_delimited_input never fails, and its result has exactly
\* the nine keys, each with the part of the input at the key's index (0, 4,
\* 3, 7, 9, 10, 13, 17, 18) when the input has that part and "" otherwise.
C1_ParseTotal ==
  pc \in {"parsed", "raised"} =>
    /\ pc = "parsed"
    /\ DOMAIN data_map = ParsedKeys
    /\ \A k \in ParsedKeys :
         data_map[k] = IF PartExists(input_string.val, ParsedIndex[k])
                       THEN PartText(input_string.val, ParsedIndex[k])
                       ELSE << >>

\* an input of 11 to 18 parts was parsed: ten_gs is read, the last key is not
C1_Witness ==
  /\ pc = "parsed"
  /\ Cardinality(TabPositions(input_string.val)) \in 10..17
  /\ data_map.ten_gs # << >>
  /\ data_map.cvcm_phu_trach = << >>

FormKeys ==
  {"ma_lop", "ma_hoc_vien", "ho_ten_hv", "ngay_bat_dau_cong_tac", "ma_gia_su",
   "ho_ten_gs", "mon_lop", "quan_ly_lop_phu_trach", "co_van_chuyen_mon",
   "ten_gia_su_ky_ten"}

\* the renaming table: the key of ParsedFields each form field comes from
SourceKey ==
  [ma_lop |-> "id_class", ma_hoc_vien |-> "id_hv", ho_ten_hv |-> "ten_hv",
   ngay_bat_dau_cong_tac |-> "ngay_bat_dau", ma_gia_su |-> "id_gs",
   ho_ten_gs |-> "ten_gs", mon_lop |-> "san_pham",
   quan_ly_lop_phu_trach |-> "quan_ly_lop",
   co_van_chuyen_mon |-> "cvcm_phu_trach", ten_gia_su_ky_ten |-> "ten_gs"]

\* C2: for a mapping with any subset of the nine keys,
\* build_pdf_field_values gives exactly the ten form keys, each with the
\* value of its source key ("" when the source key is absent), and
\* ten_gia_su_ky_ten equals ho_ten_gs, the input's ten_gs.
C2_BuildTotal ==
  pc = "built" =>
    /\ DOMAIN fields_to_fill = FormKeys
    /\ \A f \in FormKeys :
         fields_to_fill[f] = IF SourceKey[f] \in DOMAIN data_map
                             THEN data_map[SourceKey[f]] ELSE << >>
    /\ fields_to_fill.ten_gia_su_ky_ten = fields_to_fill.ho_ten_gs
    /\ "ten_gs" \in DOMAIN data_map =>
         fields_to_fill.ten_gia_su_ky_ten = data_map.ten_gs

\* a mapping with ten_gs and ten_hv of different values but without
\* id_class was renamed
C2_Witness ==
  /\ pc = "built"
  /\ {"ten_gs", "ten_hv"} \subseteq DOMAIN data_map
  /\ "id_class" \notin DOMAIN data_map
  /\ data_map.ten_gs # data_map.ten_hv
  /\ fields_to_fill.ten_gia_su_ky_ten # << >>

\* the output path holds what it held before the run
OutputUntouched == output_file \in OutputFiles

\* C3 as stated: a fill with neither or with both of --data and --data-file
\* is rejected as a usage error, before any file is opened, with a non-zero
\* exit and the output not written.
C3_ExactlyOne ==
  (command = "fill" /\ pc # "start" /\ (data = None) = (data_file = None)) =>
    /\ pc = "usage_error"
    /\ exit_code > 0
    /\ iolog = << >>
    /\ OutputUntouched

\* C3, amended: a fill with neither --data nor --data-file is rejected as a
\* usage error, before any file is opened, with a non-zero exit and the
\* output not written; a fill with at least one of them is not a usage error.
C3_AtLeastOne ==
  (command = "fill" /\ pc # "start") =>
    IF data = None /\ data_file = None
    THEN /\ pc = "usage_error"
         /\ exit_code > 0
         /\ iolog = << >>
         /\ OutputUntouched
    ELSE pc # "usage_error"

\* a fill without --data and --data-file was rejected
C3_Witness ==
  /\ command = "fill"
  /\ data = None
  /\ data_file = None
  /\ pc = "usage_error"

\* the run is past the point where main has its input string
HasInput ==
  /\ command = "fill"
  /\ pc \notin {"start", "usage_error", "read_input"}

\* C4 as stated: when --data is given the data file is not read and the
\* input string is the --data value.
C4_DataFirst ==
  (HasInput /\ data # None) =>
    /\ \A i \in DOMAIN iolog : iolog[i] # "read_data_file"
    /\ input_string = data

\* C4, amended: when --data-file is given the file is read, first of all
\* files, and the input string is its stripped text, whether --data is given
\* or not; otherwise no data file is read and the input string is the --data
\* value.
C4_FileFirst ==
  HasInput =>
    IF data_file # None
    THEN /\ iolog # << >>
         /\ iolog[1] = "read_data_file"
         /\ IF file_text = None
            THEN pc = "error" /\ input_string = None
            ELSE input_string = Some(Strip(file_text.val))
    ELSE /\ \A i \in DOMAIN iolog : iolog[i] # "read_data_file"
         /\ input_string = data

\* both were given, the file was read and its text, not --data, is the input
C4_Witness ==
  /\ HasInput
  /\ data # None
  /\ data_file # None
  /\ file_text # None
  /\ input_string # data
  /\ pc = "build"


\* everything fill does before it opens the output has been done: the
\* arguments passed the check, the input string was made, the template was
\* loaded and its pages copied, the appearance hint was tried and the
\* fields of every page were updated
ReadyToWrite ==
  /\ command = "fill"
  /\ pc = "write"
  /\ ~(data = None /\ data_file = None)
  /\ input_string # None
  /\ template_file.kind = "pdf"
  /\ iolog # << >>
  /\ iolog[Len(iolog)] = "open_template"
  /\ Len(writer.pages) = Len(template_file.doc.pages)
  /\ hint # "pending"
  /\ page_index = Len(writer.pages)

\* C5: the output path is opened, and the file there created or changed,
\* only by the final write, after the argument check, the template load,
\* the page copy, the appearance hint and the field updates of every page;
\* so a run that fails before the final write leaves the output as it was.
C5_OutputOpenedLast ==
  [][(\/ output_file' # output_file
      \/ (iolog' # iolog /\ \E i \in DOMAIN iolog' : iolog'[i] = "open_output"))
     => ReadyToWrite]_vars

\* a fill failed at the template load, and the file that was at the output
\* path is still there
C5_Witness ==
  /\ command = "fill"
  /\ pc = "error"
  /\ template_file.kind # "pdf"
  /\ iolog[Len(iolog)] = "open_template"
  /\ output_file = [kind |-> "old", doc |-> NoDoc]

\* the pages of doc are those of the template, in its order, and each field
\* of each page has the value fields gives its name, or the value it has in
\* the template when fields has no such key
PagesFilled(doc, fields) ==
  /\ Len(doc.pages) = Len(template_file.doc.pages)
  /\ \A i \in 1..Len(doc.pages) :
       /\ DOMAIN doc.pages[i] = DOMAIN template_file.doc.pages[i]
       /\ \A n \in DOMAIN doc.pages[i] :
            doc.pages[i][n] = IF n \in DOMAIN fields THEN Some(fields[n])
                              ELSE template_file.doc.pages[i][n]

\* C6: after a successful fill the output has the template's pages in
\* their order, every field whose name is a key of FormFieldValues has the
\* mapped value, every other field its value of the template, and no field
\* was added.
C6_EveryPageFilled ==
  (command = "fill" /\ pc = "done") =>
    /\ output_file.kind = "pdf"
    /\ DOMAIN fields_to_fill = FormKeys
    /\ PagesFilled(output_file.doc, fields_to_fill)

\* a template of two different pages was filled with a new value of ma_lop
C6_Witness ==
  /\ command = "fill"
  /\ pc = "done"
  /\ Len(output_file.doc.pages) = 2
  /\ output_file.doc.pages[1] # output_file.doc.pages[2]
  /\ \E i \in 1..2 : /\ "ma_lop" \in DOMAIN output_file.doc.pages[i]
                     /\ output_file.doc.pages[i].ma_lop # Some(old)
                     /\ output_file.doc.pages[i].other = Some(keep)

\* C8: set_need_appearances lets no error out: whether it fails or not,
\* fill goes on to the field updates, and a fill that ends well after a
\* failed hint has filled every page and written the output; when the hint
\* succeeds the AcroForm of the new document, created if there was none,
\* has NeedAppearances true, and so has the output written from it.
C8_HintBestEffort ==
  /\ [][pc = "hint" => pc' = "update" /\ exit_code' = exit_code]_vars
  /\ [](hint = "ok" => writer.acro = "need")
  /\ []((command = "fill" /\ pc = "done") =>
          /\ output_file.doc = writer
          /\ hint = "ok" => output_file.doc.acro = "need"
          /\ hint = "skipped" => PagesFilled(output_file.doc, fields_to_fill))

\* a fill ended well although the hint failed after it had created the
\* AcroForm
C8_Witness ==
  /\ command = "fill"
  /\ pc = "done"
  /\ hint = "skipped"
  /\ writer.acro = "present"
  /\ Len(output_file.doc.pages) > 0
  /\ output_file.kind = "pdf"

\* C9: once the template is open list_form_fields raises nothing: its
\* result is the text accessor's mapping with None replaced by "", or, when
\* that accessor raised, the fallback's fields each with its /V, or "" when
\* it has none or is no dictionary, or the empty mapping when the fallback
\* raised or gave nothing; only a template that cannot be opened is an error.
C9_ListDegrades ==
  command = "list-fields" =>
    /\ pc = "error" => template_file.kind # "pdf" /\ text_fields = NotCalled
    /\ pc = "usage_error" => FALSE
    /\ pc \in {"print", "done"} =>
         /\ text_fields.kind # "not_called"
         /\ DOMAIN listed =
              IF text_fields.kind = "value" THEN DOMAIN text_fields.val
              ELSE IF fields2.kind = "value" THEN DOMAIN fields2.val
              ELSE {}
         /\ \A n \in DOMAIN listed :
              listed[n] =
                IF text_fields.kind = "value"
                THEN IF text_fields.val[n].some THEN text_fields.val[n].val
                     ELSE << >>
                ELSE IF fields2.val[n].isdict /\ fields2.val[n].V.some
                     THEN fields2.val[n].V.val
                     ELSE << >>

\* the text accessor raised and the fallback gave a field that is no
\* dictionary and one with a value
C9_Witness ==
  /\ command = "list-fields"
  /\ pc = "done"
  /\ text_fields.kind = "raise"
  /\ fields2.kind = "value"
  /\ \E n, m \in DOMAIN fields2.val :
       /\ ~fields2.val[n].isdict
       /\ listed[n] = << >>
       /\ listed[m] = value

\* the number of tab characters s starts with
LeadingTabs(s) ==
  Cardinality({k \in 1..Len(s) : \A j \in 1..k : s[j] = TAB})

\* C10: with --data-file the input string is the file's text without the
\* whitespace characters it starts and ends with, tabs included; when the text starts with
\* k tabs and then a character that is no whitespace, every part of the
\* input string but the last is the part k positions later of the text, so
\* each key that reads such a part gets the text's part k positions after
\* its index; without --data-file the input string is --data, untrimmed.
C10_FileTextTrimmed ==
  (command = "fill" /\ pc \in {"parse", "build"}) =>
    IF data_file = None THEN input_string = data
    ELSE file_text # None =>
      LET text == file_text.val
          s == input_string.val
          k == LeadingTabs(text)
          lead == Cardinality({i \in 1..Len(text) :
                                 \A j \in 1..i : text[j] \in Whitespace})
          trail == Cardinality({i \in 1..Len(text) :
                                  \A j \in i..Len(text) : text[j] \in Whitespace})
      IN  /\ s = IF lead = Len(text) THEN << >>
                 ELSE SubSeq(text, lead + 1, Len(text) - trail)
          /\ s # << >> => s[1] \notin Whitespace /\ s[Len(s)] \notin Whitespace
          /\ (k < Len(text) /\ text[k + 1] \notin Whitespace) =>
               /\ pc = "parse" =>
                    \A i \in 0..(Cardinality(TabPositions(s)) - 1) :
                      PartText(s, i) = PartText(text, i + k)
               /\ pc = "build" =>
                    \A key \in ParsedKeys :
                      ParsedIndex[key] < Cardinality(TabPositions(s)) =>
                        data_map[key] = PartText(text, ParsedIndex[key] + k)

\* a file that starts with a tab was read and parsed: id_hv has the text's
\* part 4, which --data would give to ten_hv
C10_Witness ==
  /\ HasInput
  /\ data_file # None
  /\ file_text # None
  /\ pc = "build"
  /\ LeadingTabs(file_text.val) = 1
  /\ data_map.id_hv # << >>
  /\ data_map.id_hv = parse_tab_delimited_input(file_text.val).ten_hv
  /\ data_map.id_hv # parse_tab_delimited_input(file_text.val).id_hv

====
